---- MODULE Spec2Model ----
(***************************************************************************)
(* Tamper-evident evidence chain of wfsl-org-profile-guard:                *)
(*   src/src/seal.ts    canonicalJson, computeInputDigest, attachSeal,     *)
(*                      verifyEvidenceObject                               *)
(*   src/src/anchor.ts  appendAnchorEntry, verifyAnchorLog                 *)
(*                                                                         *)
(* Text.  A JavaScript string is a sequence of atoms.  An atom is a tuple  *)
(* whose first element is a TLA+ string:                                   *)
(*   <<"a">>            the single character a                             *)
(*   <<"sha256", ...>>  the 64 hexadecimal characters of the SHA-256 of    *)
(*                      the text that follows the tag (distinct texts have *)
(*                      distinct digests)                                  *)
(*   <<"2026-...Z">>    an ISO-8601 timestamp                              *)
(* A digest or a timestamp is a run of characters none of which is a       *)
(* space, a line feed, a quote or a backslash, so it is kept as one atom.  *)
(*                                                                         *)
(* Values.  A JavaScript value is a tagged tuple:                          *)
(*   <<"null">> <<"undefined">> <<"true">> <<"false">> <<"NaN">>           *)
(*   <<"num", k>>   a finite number, k \in Nat                             *)
(*   <<"str", s>>   a string                                               *)
(*   <<"arr", xs>>  an array                                               *)
(*   <<"obj", ps>>  an object: its properties <<key, value>> in the order  *)
(*                  they were created, keys pairwise distinct              *)
(***************************************************************************)
EXTENDS Integers, Sequences, FiniteSets, TLC

----------------------------------------------------------------------------
(* Characters and strings *)

\* The characters of the model in ascending UTF-16 code-unit order.
AlphaOrder ==
  << "\n", " ", "\"", ",", "0", "1", "2", "3", "4", "5", "6", "7", "8", "9",
     ":", "P", "R", "[", "\\", "]", "_",
     "a", "b", "c", "d", "e", "f", "g", "h", "i", "j", "k", "l", "m",
     "n", "o", "p", "q", "r", "s", "t", "u", "v", "w", "x", "y", "z",
     "{", "}" >>

Digits == << "0", "1", "2", "3", "4", "5", "6", "7", "8", "9" >>

CodeOf ==
  [c \in { AlphaOrder[i] : i \in 1..Len(AlphaOrder) } |->
     CHOOSE i \in 1..Len(AlphaOrder) : AlphaOrder[i] = c]

Code(atom) == CodeOf[atom[1]]

\* The string whose characters are the elements of cs.
Chars(cs) == [i \in 1..Len(cs) |-> <<cs[i]>>]

SP == <<" ">>
NL == <<"\n">>
QUOTE == <<"\"">>
BACKSLASH == <<"\\">>

\* s < t as JavaScript compares strings: by the code units at the first
\* place where they differ, a proper prefix first.
StrLess(s, t) ==
  LET n == IF Len(s) < Len(t) THEN Len(s) ELSE Len(t)
      differ == { i \in 1..n : s[i] # t[i] }
  IN IF differ = {} THEN Len(s) < Len(t)
     ELSE LET i == CHOOSE d \in differ : \A e \in differ : d <= e
          IN Code(s[i]) < Code(t[i])

RECURSIVE Join(_, _)
Join(parts, sep) ==
  IF parts = <<>> THEN <<>>
  ELSE IF Len(parts) = 1 THEN parts[1]
  ELSE parts[1] \o sep \o Join(Tail(parts), sep)

\* String.prototype.split(sep) for a one-character separator.
RECURSIVE Split(_, _)
Split(s, sep) ==
  IF \A i \in 1..Len(s) : s[i] # sep THEN <<s>>
  ELSE LET i == CHOOSE j \in 1..Len(s) :
                  s[j] = sep /\ \A k \in 1..(j - 1) : s[k] # sep
       IN <<SubSeq(s, 1, i - 1)>> \o Split(SubSeq(s, i + 1, Len(s)), sep)

\* String.prototype.split(sep, limit): the first limit pieces.
SplitLimit(s, sep, limit) ==
  LET all == Split(s, sep)
  IN IF Len(all) <= limit THEN all ELSE SubSeq(all, 1, limit)

IsWhite(atom) == atom = SP \/ atom = NL

\* String.prototype.trim().
RECURSIVE Trim(_)
Trim(s) ==
  IF s = <<>> THEN s
  ELSE IF IsWhite(Head(s)) THEN Trim(Tail(s))
  ELSE IF IsWhite(s[Len(s)]) THEN Trim(SubSeq(s, 1, Len(s) - 1))
  ELSE s

----------------------------------------------------------------------------
(* SHA-256 *)

\* src/src/anchor.ts hash: the hex digest of a string, a string of one atom.
hash(data) == << <<"sha256">> \o data >>

\* src/src/seal.ts sha256Hex: the same digest.
sha256Hex(input) == << <<"sha256">> \o input >>

----------------------------------------------------------------------------
(* JavaScript objects *)

Null == <<"null">>
Undefined == <<"undefined">>
Str(s) == <<"str", s>>
Num(k) == <<"num", k>>
Arr(xs) == <<"arr", xs>>
Obj(ps) == <<"obj", ps>>

True == <<"true">>
False == <<"false">>
NaN == <<"NaN">>

\* !v
Falsy(v) ==
  \/ v[1] \in {"null", "undefined", "false", "NaN"}
  \/ v = Num(0)
  \/ v = Str(<<>>)

\* typeof v === "object"
TypeofObject(v) == v[1] \in {"null", "arr", "obj"}

\* An array index: "0", or digits without a leading zero.
IsArrayIndex(key) ==
  /\ key # <<>>
  /\ \A i \in 1..Len(key) : \E d \in 1..10 : key[i] = <<Digits[d]>>
  /\ (Len(key) > 1 => key[1] # <<"0">>)

DigitOf(atom) == (CHOOSE d \in 1..10 : atom = <<Digits[d]>>) - 1

RECURSIVE IndexValue(_)
IndexValue(key) ==
  IF key = <<>> THEN 0
  ELSE 10 * IndexValue(SubSeq(key, 1, Len(key) - 1)) + DigitOf(key[Len(key)])

\* a before b: as array indices by value, as strings by code units.
Before(order, a, b) ==
  IF order = "index" THEN IndexValue(a) < IndexValue(b) ELSE StrLess(a, b)

RECURSIVE InsertBy(_, _, _)
InsertBy(order, key, sorted) ==
  IF sorted = <<>> THEN <<key>>
  ELSE IF Before(order, key, Head(sorted)) THEN <<key>> \o sorted
  ELSE <<Head(sorted)>> \o InsertBy(order, key, Tail(sorted))

\* The strings keys in ascending order.
RECURSIVE SortBy(_, _)
SortBy(order, keys) ==
  IF keys = <<>> THEN <<>>
  ELSE InsertBy(order, keys[Len(keys)],
                SortBy(order, SubSeq(keys, 1, Len(keys) - 1)))

\* Array.prototype.sort() without a comparator: code-unit order of strings.
SortStrings(keys) == SortBy("string", keys)

\* The own property keys of an object in the order the engine enumerates
\* them: array indices ascending by value, then the others as created.
OwnKeys(props) ==
  LET keys == [i \in 1..Len(props) |-> props[i][1]]
  IN SortBy("index", SelectSeq(keys, IsArrayIndex))
       \o SelectSeq(keys, LAMBDA k : ~IsArrayIndex(k))

HasKey(props, key) == \E i \in 1..Len(props) : props[i][1] = key

\* obj[key]; undefined when there is no such property.
Get(props, key) ==
  IF HasKey(props, key)
  THEN props[CHOOSE i \in 1..Len(props) : props[i][1] = key][2]
  ELSE Undefined

\* obj[key] = value: overwrites in place or creates the property last.
Put(props, key, value) ==
  IF HasKey(props, key)
  THEN [i \in 1..Len(props) |->
          IF props[i][1] = key THEN <<key, value>> ELSE props[i]]
  ELSE Append(props, <<key, value>>)

\* { ...v }: the own properties of an object in the order of its own keys.
\* The values spread in the model are objects.
Spread(v) ==
  IF v[1] = "obj"
  THEN LET keys == OwnKeys(v[2])
       IN [i \in 1..Len(keys) |-> <<keys[i], Get(v[2], keys[i])>>]
  ELSE <<>>

\* const { [key]: _, ...rest } = v: the spread of v without the property key.
Rest(v, key) == SelectSeq(Spread(v), LAMBDA p : p[1] # key)

\* v[key] for any value v that is neither null nor undefined.
Member(v, key) == IF v[1] = "obj" THEN Get(v[2], key) ELSE Undefined

----------------------------------------------------------------------------
(* JSON.stringify *)

RECURSIVE NumText(_)
NumText(k) ==
  IF k < 10 THEN <<<<Digits[k + 1]>>>>
  ELSE NumText(k \div 10) \o <<<<Digits[(k % 10) + 1]>>>>

\* The characters of a string inside a JSON string literal.
RECURSIVE JsonEscape(_)
JsonEscape(s) ==
  IF s = <<>> THEN <<>>
  ELSE (IF Head(s) = QUOTE THEN <<BACKSLASH, QUOTE>>
        ELSE IF Head(s) = BACKSLASH THEN <<BACKSLASH, BACKSLASH>>
        ELSE IF Head(s) = NL THEN <<BACKSLASH, <<"n">>>>
        ELSE <<Head(s)>>) \o JsonEscape(Tail(s))

JsonQuote(s) == <<QUOTE>> \o JsonEscape(s) \o <<QUOTE>>

\* JSON.stringify(value) for a value other than undefined.  Inside an array
\* undefined and NaN become null; a property whose value is undefined is
\* left out.
RECURSIVE JsonStringify(_)
JsonStringify(v) ==
  CASE v[1] = "null" -> Chars(<<"n", "u", "l", "l">>)
    [] v[1] = "undefined" -> Chars(<<"n", "u", "l", "l">>)
    [] v[1] = "NaN" -> Chars(<<"n", "u", "l", "l">>)
    [] v[1] = "true" -> Chars(<<"t", "r", "u", "e">>)
    [] v[1] = "false" -> Chars(<<"f", "a", "l", "s", "e">>)
    [] v[1] = "num" -> NumText(v[2])
    [] v[1] = "str" -> JsonQuote(v[2])
    [] v[1] = "arr" ->
         <<<<"[">>>>
           \o Join([i \in 1..Len(v[2]) |-> JsonStringify(v[2][i])], <<<<",">>>>)
           \o <<<<"]">>>>
    [] v[1] = "obj" ->
         LET keys == SelectSeq(OwnKeys(v[2]),
                               LAMBDA k : Get(v[2], k) # Undefined)
         IN <<<<"{">>>>
              \o Join([i \in 1..Len(keys) |->
                         JsonQuote(keys[i]) \o <<<<":">>>>
                           \o JsonStringify(Get(v[2], keys[i]))], <<<<",">>>>)
              \o <<<<"}">>>>

----------------------------------------------------------------------------
(* src/src/seal.ts *)

\* isPlainObject
isPlainObject(v) == v[1] = "obj"

\* normalise without the sort of the keys.
RECURSIVE normaliseUnsorted(_)
normaliseUnsorted(v) ==
  CASE v[1] = "null" -> Null
    [] v[1] = "str" -> v
    [] v[1] = "true" -> v
    [] v[1] = "false" -> v
    [] v[1] = "num" -> v
    [] v[1] = "NaN" -> Null
    [] v[1] = "arr" ->
         Arr([i \in 1..Len(v[2]) |-> normaliseUnsorted(v[2][i])])
    [] v[1] = "obj" ->
         LET keys == OwnKeys(v[2])
         IN Obj([i \in 1..Len(keys) |->
                   <<keys[i], normaliseUnsorted(Get(v[2], keys[i]))>>])
    [] OTHER -> Null

\* normalise of canonicalJson.  For an object, `out` gets one property per
\* key of Object.keys(v).sort(), created in that order.
RECURSIVE normalise(_)
normalise(v) ==
  CASE v[1] = "null" -> Null
    [] v[1] = "str" -> v
    [] v[1] = "true" -> v
    [] v[1] = "false" -> v
    [] v[1] = "num" -> v
    [] v[1] = "NaN" -> Null
    [] v[1] = "arr" -> Arr([i \in 1..Len(v[2]) |-> normalise(v[2][i])])
    [] isPlainObject(v) ->
         LET keys == SortStrings(OwnKeys(v[2]))
         IN Obj([i \in 1..Len(keys) |->
                   <<keys[i], normalise(Get(v[2], keys[i]))>>])
    [] OTHER -> Null

\* JSON.stringify(v, list): of every object inside v only the properties
\* whose key is in list, in the order of list.
RECURSIVE JsonStringifyListed(_, _)
JsonStringifyListed(v, list) ==
  IF v[1] = "arr"
  THEN <<<<"[">>>>
         \o Join([i \in 1..Len(v[2]) |-> JsonStringifyListed(v[2][i], list)],
                 <<<<",">>>>)
         \o <<<<"]">>>>
  ELSE IF v[1] = "obj"
  THEN LET keys == SelectSeq(list, LAMBDA k : Get(v[2], k) # Undefined)
       IN <<<<"{">>>>
            \o Join([i \in 1..Len(keys) |->
                       JsonQuote(keys[i]) \o <<<<":">>>>
                         \o JsonStringifyListed(Get(v[2], keys[i]), list)],
                    <<<<",">>>>)
            \o <<<<"}">>>>
  ELSE JsonStringify(v)

\* JSON.stringify(value, Object.keys(value).sort()) in the place of
\* canonicalJson.
canonicalJsonKeyList(value) ==
  JsonStringifyListed(value,
    IF value[1] = "obj" THEN SortStrings(OwnKeys(value[2])) ELSE <<>>)

canonicalJson(value) == JsonStringify(normalise(value))

computeEvidenceDigest(evidenceWithoutSeal) ==
  sha256Hex(canonicalJson(evidenceWithoutSeal))

K_seal == Chars(<<"s", "e", "a", "l">>)
K_algorithm == Chars(<<"a", "l", "g", "o", "r", "i", "t", "h", "m">>)
K_input_digest ==
  Chars(<<"i", "n", "p", "u", "t", "_", "d", "i", "g", "e", "s", "t">>)
K_evidence_digest ==
  Chars(<<"e", "v", "i", "d", "e", "n", "c", "e", "_",
          "d", "i", "g", "e", "s", "t">>)
K_previous_digest ==
  Chars(<<"p", "r", "e", "v", "i", "o", "u", "s", "_",
          "d", "i", "g", "e", "s", "t">>)
K_chain_index ==
  Chars(<<"c", "h", "a", "i", "n", "_", "i", "n", "d", "e", "x">>)
SHA256 == Chars(<<"s", "h", "a", "2", "5", "6">>)

\* a ?? b
Coalesce(a, b) == IF a[1] \in {"null", "undefined"} THEN b ELSE a

\* attachSeal({evidenceWithoutSeal, inputDigest, previousDigest, chainIndex});
\* an argument that is left out is undefined.
attachSeal(evidenceWithoutSeal, inputDigest, previousDigest, chainIndex) ==
  LET previous == Coalesce(previousDigest, Null)
      index == Coalesce(chainIndex, Num(1))
      evidenceDigest == computeEvidenceDigest(evidenceWithoutSeal)
      seal == Obj(<< <<K_algorithm, Str(SHA256)>>,
                     <<K_input_digest, inputDigest>>,
                     <<K_evidence_digest, Str(evidenceDigest)>>,
                     <<K_previous_digest, previous>>,
                     <<K_chain_index, index>> >>)
  IN Obj(Put(Spread(evidenceWithoutSeal), K_seal, seal))

Verdict(ok, expected, actual) ==
  [ok |-> ok, expected |-> expected, actual |-> actual]

\* verifyEvidenceObject without the check of seal.algorithm.
verifyEvidenceObjectAnyAlgorithm(evidence) ==
  IF Falsy(evidence) \/ ~TypeofObject(evidence)
  THEN Verdict(FALSE, Str(<<>>), Str(<<>>))
  ELSE LET seal == Member(evidence, K_seal)
       IN IF Falsy(seal) \/ Falsy(Member(seal, K_evidence_digest))
          THEN Verdict(FALSE, Str(<<>>), Str(<<>>))
          ELSE LET withoutSeal == Obj(Rest(evidence, K_seal))
                   recomputed == Str(computeEvidenceDigest(withoutSeal))
               IN Verdict(recomputed = Member(seal, K_evidence_digest),
                          Member(seal, K_evidence_digest), recomputed)

\* verifyEvidenceObject(evidence)
verifyEvidenceObject(evidence) ==
  IF Falsy(evidence) \/ ~TypeofObject(evidence)
  THEN Verdict(FALSE, Str(<<>>), Str(<<>>))
  ELSE LET seal == Member(evidence, K_seal)
       IN IF \/ Falsy(seal)
             \/ Member(seal, K_algorithm) # Str(SHA256)
             \/ Falsy(Member(seal, K_evidence_digest))
          THEN Verdict(FALSE, Str(<<>>), Str(<<>>))
          ELSE LET withoutSeal == Obj(Rest(evidence, K_seal))
                   recomputed == Str(computeEvidenceDigest(withoutSeal))
               IN Verdict(recomputed = Member(seal, K_evidence_digest),
                          Member(seal, K_evidence_digest), recomputed)

K_engine == Chars(<<"e", "n", "g", "i", "n", "e">>)
K_version == Chars(<<"v", "e", "r", "s", "i", "o", "n">>)
K_org == Chars(<<"o", "r", "g">>)
K_mode == Chars(<<"m", "o", "d", "e">>)
K_expectedPins ==
  Chars(<<"e", "x", "p", "e", "c", "t", "e", "d", "P", "i", "n", "s">>)
K_profileReadme ==
  Chars(<<"p", "r", "o", "f", "i", "l", "e", "R", "e", "a", "d", "m", "e">>)
K_required == Chars(<<"r", "e", "q", "u", "i", "r", "e", "d">>)
K_repo == Chars(<<"r", "e", "p", "o">>)
K_path == Chars(<<"p", "a", "t", "h">>)

\* The object literal of computeInputDigest; pins is the array it puts under
\* expectedPins.
intentOf(input, pins) ==
  Obj(<< <<K_engine, Str(input.engine)>>,
         <<K_version, Str(input.version)>>,
         <<K_org, Str(input.org)>>,
         <<K_mode, Str(input.mode)>>,
         <<K_expectedPins, Arr([i \in 1..Len(pins) |-> Str(pins[i])])>>,
         <<K_profileReadme,
           Obj(<< <<K_required, input.profileReadmeRequired>>,
                  <<K_repo, Coalesce(input.profileReadmeRepo, Null)>>,
                  <<K_path, Coalesce(input.profileReadmePath, Null)>> >>)>> >>)

\* computeInputDigest without the sort of the pins.
computeInputDigestUnsorted(input) ==
  sha256Hex(canonicalJson(intentOf(input, input.expectedPins)))

\* computeInputDigest(input); a property that is left out is undefined.
computeInputDigest(input) ==
  sha256Hex(canonicalJson(intentOf(input, SortStrings(input.expectedPins))))

----------------------------------------------------------------------------
(* JSON.parse, for the texts a log line can hold: an object whose values   *)
(* are strings.  Any other text is a SyntaxError.                          *)

SyntaxError == <<"SyntaxError">>

NoParse == [ok |-> FALSE, value |-> <<>>, rest |-> <<>>]

\* The string literal whose opening quote has been read; acc is its value
\* so far.
RECURSIVE ScanString(_, _)
ScanString(s, acc) ==
  IF s = <<>> THEN NoParse
  ELSE IF Head(s) = QUOTE THEN [ok |-> TRUE, value |-> acc, rest |-> Tail(s)]
  ELSE IF Head(s) = NL THEN NoParse
  ELSE IF Head(s) = BACKSLASH
    THEN IF Len(s) < 2 THEN NoParse
         ELSE IF s[2] = QUOTE
           THEN ScanString(SubSeq(s, 3, Len(s)), Append(acc, QUOTE))
         ELSE IF s[2] = BACKSLASH
           THEN ScanString(SubSeq(s, 3, Len(s)), Append(acc, BACKSLASH))
         ELSE IF s[2] = <<"n">>
           THEN ScanString(SubSeq(s, 3, Len(s)), Append(acc, NL))
         ELSE NoParse
  ELSE ScanString(Tail(s), Append(acc, Head(s)))

ParseString(s) ==
  IF s # <<>> /\ Head(s) = QUOTE THEN ScanString(Tail(s), <<>>) ELSE NoParse

\* The members of an object after "{" or ","; props are those read so far.
RECURSIVE ParseMembers(_, _)
ParseMembers(s, props) ==
  LET key == ParseString(s)
  IN IF ~key.ok \/ key.rest = <<>> \/ Head(key.rest) # <<":">> THEN SyntaxError
     ELSE LET val == ParseString(Tail(key.rest))
          IN IF ~val.ok \/ val.rest = <<>> THEN SyntaxError
             ELSE LET more == Put(props, key.value, Str(val.value))
                  IN IF val.rest = <<<<"}">>>> THEN Obj(more)
                     ELSE IF Head(val.rest) = <<",">>
                       THEN ParseMembers(Tail(val.rest), more)
                     ELSE SyntaxError

JSONparse(text) ==
  IF text = <<>> \/ Head(text) # <<"{">> THEN SyntaxError
  ELSE IF text = <<<<"{">>, <<"}">>>> THEN Obj(<<>>)
  ELSE ParseMembers(Tail(text), <<>>)

----------------------------------------------------------------------------
(* src/src/anchor.ts *)

GENESIS == Chars(<<"G", "E", "N", "E", "S", "I", "S">>)

K_ts == Chars(<<"t", "s">>)
K_evidence_path ==
  Chars(<<"e", "v", "i", "d", "e", "n", "c", "e", "_", "p", "a", "t", "h">>)
K_evidence_hash ==
  Chars(<<"e", "v", "i", "d", "e", "n", "c", "e", "_", "h", "a", "s", "h">>)
K_prev_hash == Chars(<<"p", "r", "e", "v", "_", "h", "a", "s", "h">>)

\* slice(0, 1) in the place of slice(-1): the hash of the first line.
prevHashOfFirstLine(exists, content) ==
  IF exists
  THEN LET lines == Split(Trim(content), NL)
       IN Head(Split(lines[1], SP))
  ELSE GENESIS

\* prevHash of appendAnchorEntry: the text before the first space of the
\* last line of the trimmed file, "GENESIS" when there is no file.  split
\* never returns an empty array, so `?.` and `??` never take their default.
prevHashOf(exists, content) ==
  IF exists
  THEN LET lines == Split(Trim(content), NL)
           last == lines[Len(lines)]
       IN Head(Split(last, SP))
  ELSE GENESIS

\* The payload appendAnchorEntry builds around the prevHash it read; now is
\* new Date().toISOString().
payloadWith(prevHash, evidencePath, evidence, now) ==
  Obj(<< <<K_ts, Str(now)>>,
         <<K_evidence_path, Str(evidencePath)>>,
         <<K_evidence_hash, Str(hash(JsonStringify(evidence)))>>,
         <<K_prev_hash, Str(prevHash)>> >>)

\* payload of appendAnchorEntry when nothing runs between its read of the log
\* and its append.
payloadOf(exists, content, evidencePath, evidence, now) ==
  payloadWith(prevHashOf(exists, content), evidencePath, evidence, now)

\* line of appendAnchorEntry.
lineOf(payload) ==
  hash(JsonStringify(payload)) \o <<SP>> \o JsonStringify(payload)

\* fs.writeFileSync in the place of fs.appendFileSync: data replaces the file.
writeFileSync(content, data) == data

\* fs.appendFileSync(logPath, data): the file with data at its end.
appendFileSync(content, data) == content \o data

\* What verifyAnchorLog gives back, or the exception that leaves it.
Returned(ok, entries, error) ==
  [outcome |-> "returned", ok |-> ok, entries |-> entries, error |-> error]

Threw(name) ==
  [outcome |-> "threw", ok |-> FALSE, entries |-> -1, error |-> <<name>>]

NoError == <<"undefined">>

\* The loop of verifyAnchorLog from entry i (0-based) on.
RECURSIVE verifyFrom(_, _, _)
verifyFrom(lines, i, prev) ==
  IF i >= Len(lines) THEN Returned(TRUE, Len(lines), NoError)
  ELSE LET parts == SplitLimit(lines[i + 1], SP, 2)
           h == parts[1]
           payload == IF Len(parts) < 2 THEN SyntaxError ELSE JSONparse(parts[2])
       IN IF payload = SyntaxError THEN Threw("SyntaxError")
          ELSE IF Get(payload[2], K_prev_hash) # Str(prev)
            THEN Returned(FALSE, i, <<"Hash chain broken at entry ", i>>)
          ELSE IF hash(JsonStringify(payload)) # h
            THEN Returned(FALSE, i, <<"Entry hash mismatch at ", i>>)
          ELSE verifyFrom(lines, i + 1, h)

verifyAnchorLog(exists, content) ==
  IF ~exists THEN Returned(TRUE, 0, NoError)
  ELSE verifyFrom(Split(Trim(content), NL), 0, GENESIS)

----------------------------------------------------------------------------
(* State *)

VARIABLES
  origin,      \* the log file before the first call: "absent", "empty", "blank"
  logExists,   \* fs.existsSync(logPath)
  logFile,     \* the content of the log file
  written,     \* the lines appendAnchorEntry wrote, as it wrote them
  inputs,      \* the evidence value given to each appendAnchorEntry call
  returned,    \* the payload each appendAnchorEntry call returned
  alterations, \* how many times a payload was altered in place
  result,      \* what the last verifyAnchorLog gave, NoResult after a write
  body,        \* the evidenceWithoutSeal given to attachSeal
  sealed,      \* what attachSeal returned
  evidence,    \* the evidence object as it is now
  mutations,   \* how many times a field of the evidence was changed
  verdict,     \* what the last verifyEvidenceObject gave
  value,       \* a value given to canonicalJson
  twin,        \* the same value with keys created in another order
  canon,       \* canonicalJson of value and of twin
  input,       \* an input of computeInputDigest
  other,       \* a second input of computeInputDigest
  digests,     \* computeInputDigest of input and of other
  pc,          \* where each concurrent caller of appendAnchorEntry stands
  held,        \* the prevHash each concurrent caller holds since its read
  basis        \* the prevHash read for each entry of the log, in log order

logVars ==
  << origin, logExists, logFile, written, inputs, returned, alterations, result >>
sealVars == << body, sealed, evidence, mutations, verdict >>
canonVars == << value, twin, canon >>
digestVars == << input, other, digests >>
raceVars == << pc, held, basis >>
vars == << logVars, sealVars, canonVars, digestVars, raceVars >>

----------------------------------------------------------------------------
(* The anchor log as a state machine *)

MaxAppends == 3
MaxAlterations == 2

\* Values of new Date().toISOString().
Timestamps ==
  { << <<"2026-01-01T00:00:00.000Z">> >>, << <<"2026-01-02T00:00:00.000Z">> >> }

PlainPath == Chars(<<"e">>)
SpacedPath == Chars(<<"a", " ", "b">>)
QuotedPath == Chars(<<"e", "\n", "\"", "\\">>)
EvidencePaths == { QuotedPath, SpacedPath }

KeyA == Chars(<<"a">>)
KeyB == Chars(<<"b">>)
KeyC == Chars(<<"c">>)
PlainEvidence == Str(Chars(<<"x">>))
EvidenceAB == Obj(<< <<KeyA, Num(1)>>, <<KeyB, Arr(<<Null, PlainEvidence>>)>> >>)
EvidenceBA == Obj(<< <<KeyB, Arr(<<Null, PlainEvidence>>)>>, <<KeyA, Num(1)>> >>)
Evidences == { PlainEvidence, EvidenceAB, EvidenceBA }

\* What an alteration of the log writes into a field of a payload.
AlteredValues == { GENESIS, SpacedPath, Chars(<<"z">>) }
PayloadKeys == { K_ts, K_evidence_path, K_evidence_hash, K_prev_hash }

NoResult == [outcome |-> "none", ok |-> FALSE, entries |-> -1, error |-> NoError]
NoVerdict == [ok |-> FALSE, expected |-> Undefined, actual |-> Undefined]
NoInput ==
  [engine |-> <<>>, version |-> <<>>, org |-> <<>>, mode |-> <<>>,
   expectedPins |-> <<>>, profileReadmeRequired |-> False,
   profileReadmeRepo |-> Undefined, profileReadmePath |-> Undefined]

InitLog(origins) ==
  /\ origin \in origins
  /\ logExists = (origin # "absent")
  /\ logFile = (IF origin = "blank" THEN <<SP, NL>> ELSE <<>>)
  /\ written = <<>>
  /\ inputs = <<>>
  /\ returned = <<>>
  /\ alterations = 0
  /\ result = NoResult

InitSeal ==
  /\ body = Undefined
  /\ sealed = Undefined
  /\ evidence = Undefined
  /\ mutations = 0
  /\ verdict = NoVerdict

NoCanon == <<>>

InitCanon(values) ==
  /\ value \in values
  /\ twin = value
  /\ canon = NoCanon

NoDigests == <<>>

InitDigest(given) ==
  /\ input \in given
  /\ other = input
  /\ digests = NoDigests

\* The callers of appendAnchorEntry that run at the same time.
Writers == { "w1", "w2" }

\* No call of appendAnchorEntry is in progress.
InitRace ==
  /\ pc = [w \in Writers |-> "idle"]
  /\ held = [w \in Writers |-> <<>>]
  /\ basis = <<>>

Init ==
  /\ InitLog({"absent"})
  /\ InitSeal
  /\ InitCanon({Undefined})
  /\ InitDigest({NoInput})
  /\ InitRace

\* appendAnchorEntry({logPath, evidencePath, evidence})
appendAnchorEntry(evidencePath, evidence_, now) ==
  LET payload == payloadOf(logExists, logFile, evidencePath, evidence_, now)
  IN /\ Len(written) < MaxAppends
     /\ logExists' = TRUE
     /\ logFile' = appendFileSync(logFile, lineOf(payload) \o <<NL>>)
     /\ written' = Append(written, lineOf(payload))
     /\ inputs' = Append(inputs, evidence_)
     /\ returned' = Append(returned, payload)
     /\ result' = NoResult
     /\ UNCHANGED << origin, alterations, sealVars, canonVars, digestVars, raceVars >>

AppendEntry ==
  \E evidencePath \in EvidencePaths, evidence_ \in Evidences, now \in Timestamps :
    appendAnchorEntry(evidencePath, evidence_, now)

AppendPlainEntry ==
  \E now \in Timestamps : appendAnchorEntry(PlainPath, PlainEvidence, now)

\* verifyAnchorLog(logPath)
VerifyLog ==
  /\ result' = verifyAnchorLog(logExists, logFile)
  /\ UNCHANGED << origin, logExists, logFile, written, inputs, returned,
                  alterations, sealVars, canonVars, digestVars, raceVars >>

\* The lines of the log as verifyAnchorLog numbers them.
LogLines == Split(Trim(logFile), NL)

\* Somebody edits the file: the payload of entry k gets another value for
\* one of its fields, the leading hash of the line stays.
AlterPayload ==
  \E k \in 1..Len(LogLines), key \in PayloadKeys, new \in AlteredValues :
    LET line == LogLines[k]
        h == Head(Split(line, SP))
        payload == JSONparse(SubSeq(line, Len(h) + 2, Len(line)))
        altered == Obj(Put(payload[2], key, Str(new)))
    IN /\ logExists
       /\ logFile # <<>>
       /\ alterations < MaxAlterations
       /\ payload # SyntaxError
       /\ Get(payload[2], key) # Str(new)
       /\ logFile' = Join([i \in 1..Len(LogLines) |->
                             IF i = k THEN h \o <<SP>> \o JsonStringify(altered)
                             ELSE LogLines[i]], <<NL>>) \o <<NL>>
       /\ alterations' = alterations + 1
       /\ result' = NoResult
       /\ UNCHANGED << origin, logExists, written, inputs, returned,
                       sealVars, canonVars, digestVars, raceVars >>

Next == AppendEntry \/ VerifyLog

Spec == Init /\ [][Next]_vars

\* The log under alteration: it starts absent and gets plain entries.
NextTamper == AppendPlainEntry \/ AlterPayload \/ VerifyLog

SpecTamper == Init /\ [][NextTamper]_vars

\* The log file exists before the first call and holds no entry: it is
\* empty, or holds white space only.
InitExisting ==
  /\ InitLog({"empty", "blank"})
  /\ InitSeal
  /\ InitCanon({Undefined})
  /\ InitDigest({NoInput})
  /\ InitRace

AppendPlainPathEntry ==
  \E evidence_ \in Evidences, now \in Timestamps :
    appendAnchorEntry(PlainPath, evidence_, now)

NextExisting == AppendPlainPathEntry \/ VerifyLog

SpecExisting == InitExisting /\ [][NextExisting]_vars

----------------------------------------------------------------------------
(* Two callers of appendAnchorEntry on one log file *)

\* The prevHash a caller puts in its payload if it held the log from its read
\* to its append: the hash of the line that is last when it appends.
prevHashUnderLock(read, exists, content) == prevHashOf(exists, content)

\* The prevHash a caller puts in its payload: the constant it computed from
\* the file when it read it, whatever the file holds when it appends.
prevHashAtAppend(read, exists, content) == read

\* Number of callers that have read the log and not appended yet.
Pending == Cardinality({ w \in Writers : pc[w] = "read" })

\* First half of appendAnchorEntry by caller w: existsSync and readFileSync
\* give it the hash of the last line.
ReadLastLine(w) ==
  /\ pc[w] = "idle"
  /\ Len(written) + Pending < MaxAppends
  /\ held' = [held EXCEPT ![w] = prevHashOf(logExists, logFile)]
  /\ pc' = [pc EXCEPT ![w] = "read"]
  /\ UNCHANGED << logVars, sealVars, canonVars, digestVars, basis >>

\* Second half of appendAnchorEntry by caller w: it builds the payload and
\* the line, and appendFileSync puts the line after what the file holds now.
AppendLine(w) ==
  \E now \in Timestamps :
    LET prevHash == prevHashAtAppend(held[w], logExists, logFile)
        payload == payloadWith(prevHash, PlainPath, PlainEvidence, now)
    IN /\ pc[w] = "read"
       /\ logExists' = TRUE
       /\ logFile' = appendFileSync(logFile, lineOf(payload) \o <<NL>>)
       /\ written' = Append(written, lineOf(payload))
       /\ inputs' = Append(inputs, PlainEvidence)
       /\ returned' = Append(returned, payload)
       /\ result' = NoResult
       /\ basis' = Append(basis, held[w])
       /\ held' = [held EXCEPT ![w] = <<>>]
       /\ pc' = [pc EXCEPT ![w] = "idle"]
       /\ UNCHANGED << origin, alterations, sealVars, canonVars, digestVars >>

NextRace ==
  \/ \E w \in Writers : ReadLastLine(w)
  \/ \E w \in Writers : AppendLine(w)
  \/ VerifyLog

SpecRace == Init /\ [][NextRace]_vars

----------------------------------------------------------------------------
(* Sealing and verifying evidence as a state machine *)

MaxMutations == 2

KeyN == Chars(<<"n">>)
OldSeal == Str(Chars(<<"o", "l", "d">>))
NestedBC == Obj(<< <<KeyC, Num(1)>>, <<KeyB, Num(2)>> >>)
NestedBC2 == Obj(<< <<KeyC, Num(2)>>, <<KeyB, Num(2)>> >>)

\* Evidence bodies given to attachSeal.
Bodies ==
  { Obj(<< <<KeyA, Num(1)>>, <<KeyB, PlainEvidence>> >>),
    Obj(<< <<KeyB, PlainEvidence>>, <<KeyA, Num(1)>> >>),
    Obj(<< <<KeyA, Null>> >>),
    Obj(<< <<KeyN, NestedBC>>, <<KeyA, Arr(<<NaN, Num(1)>>)>> >>),
    Obj(<< <<Chars(<<"1", "0">>), Num(1)>>, <<Chars(<<"9">>), Num(2)>> >>),
    Obj(<< <<KeyA, Num(1)>>, <<K_seal, OldSeal>> >>) }

InputDigests == { Str(sha256Hex(Chars(<<"i">>))), Str(sha256Hex(Chars(<<"j">>))) }

\* previousDigest and chainIndex as a caller gives them.
ChainArguments ==
  { <<Undefined, Undefined>>, <<Str(sha256Hex(Chars(<<"p">>))), Num(2)>> }

\* The values a field of the evidence is changed to.
FieldValues ==
  { Null, NaN, Undefined, Num(1), Num(2), PlainEvidence, NestedBC, NestedBC2 }

\* What is given to verifyEvidenceObject in the place of an evidence object.
NonEvidence ==
  { Null, Undefined, False, True, Num(0), Num(5), Str(<<>>), PlainEvidence,
    Arr(<<>>), Arr(<<Num(1)>>) }

\* The seals a damaged evidence object carries in the place of seal.
DamagedSeals(seal) ==
  { Null, Str(<<>>), OldSeal, Num(5), Obj(<<>>) }
    \cup (IF seal[1] # "obj" THEN {}
          ELSE { Obj(Put(seal[2], K_algorithm, Str(Chars(<<"m", "d", "5">>)))),
                 Obj(Put(seal[2], K_algorithm, Undefined)),
                 Obj(Put(seal[2], K_evidence_digest, Str(<<>>))),
                 Obj(Put(seal[2], K_evidence_digest, Null)),
                 Obj(Put(seal[2], K_evidence_digest, Num(5))),
                 Obj(Put(seal[2], K_evidence_digest,
                         Str(sha256Hex(Chars(<<"z">>))))) })

\* attachSeal(params)
AttachSeal ==
  \E b \in Bodies, d \in InputDigests, c \in ChainArguments :
    /\ sealed = Undefined
    /\ body' = b
    /\ sealed' = attachSeal(b, d, c[1], c[2])
    /\ evidence' = attachSeal(b, d, c[1], c[2])
    /\ verdict' = NoVerdict
    /\ UNCHANGED << mutations, logVars, canonVars, digestVars, raceVars >>

\* evidence[key] = new, for a field other than seal.
MutateField ==
  /\ evidence[1] = "obj"
  /\ mutations < MaxMutations
  /\ \E i \in 1..Len(evidence[2]), new \in FieldValues :
       /\ evidence[2][i][1] # K_seal
       /\ evidence[2][i][2] # new
       /\ evidence' = Obj(Put(evidence[2], evidence[2][i][1], new))
  /\ mutations' = mutations + 1
  /\ verdict' = NoVerdict
  /\ UNCHANGED << body, sealed, logVars, canonVars, digestVars, raceVars >>

\* evidence.seal = damaged, or delete evidence.seal.
DamageSeal ==
  /\ evidence[1] = "obj"
  /\ HasKey(evidence[2], K_seal)
  /\ mutations < MaxMutations
  /\ \/ \E damaged \in DamagedSeals(Get(evidence[2], K_seal)) :
          /\ Get(evidence[2], K_seal) # damaged
          /\ evidence' = Obj(Put(evidence[2], K_seal, damaged))
     \/ evidence' = Obj(Rest(evidence, K_seal))
  /\ mutations' = mutations + 1
  /\ verdict' = NoVerdict
  /\ UNCHANGED << body, sealed, logVars, canonVars, digestVars, raceVars >>

\* Something that attachSeal did not make is about to be verified.
PresentOther ==
  /\ sealed = Undefined
  /\ evidence = Undefined
  /\ evidence' \in (NonEvidence \cup Bodies) \ {Undefined}
  /\ verdict' = NoVerdict
  /\ UNCHANGED << body, sealed, mutations, logVars, canonVars, digestVars, raceVars >>

\* verifyEvidenceObject(evidence)
VerifyEvidence ==
  /\ verdict' = verifyEvidenceObject(evidence)
  /\ UNCHANGED << body, sealed, evidence, mutations, logVars, canonVars,
                  digestVars, raceVars >>

NextSeal ==
  AttachSeal \/ MutateField \/ DamageSeal \/ PresentOther \/ VerifyEvidence

SpecSeal == Init /\ [][NextSeal]_vars

----------------------------------------------------------------------------
(* canonicalJson as a state machine *)

NestedDeep ==
  Obj(<< <<KeyB, Obj(<< <<KeyC, Arr(<<EvidenceBA, NaN>>)>>,
                        <<KeyA, Undefined>>,
                        <<KeyN, Num(2)>> >>)>>,
         <<KeyC, Null>>,
         <<KeyA, PlainEvidence>> >>)

\* Values given to canonicalJson.
CanonValues ==
  { NestedDeep,
    Obj(<< <<Chars(<<"1", "0">>), Num(1)>>, <<Chars(<<"9">>), Num(2)>>,
           <<KeyB, True>>, <<KeyA, Num(10)>> >>),
    Arr(<<EvidenceAB, NestedBC, Num(0)>>),
    PlainEvidence }

\* v with the properties at places i and i + 1 in each other's place.
SwapProps(props, i) ==
  [j \in 1..Len(props) |->
     IF j = i THEN props[i + 1] ELSE IF j = i + 1 THEN props[i] ELSE props[j]]

\* The values that differ from v in the creation order of two neighbouring
\* keys of one object inside v.
RECURSIVE Reorderings(_)
Reorderings(v) ==
  IF v[1] = "obj"
  THEN { Obj(SwapProps(v[2], i)) : i \in 1..(Len(v[2]) - 1) }
         \cup UNION { { Obj([v[2] EXCEPT ![i] = <<v[2][i][1], r>>]) :
                          r \in Reorderings(v[2][i][2]) } : i \in 1..Len(v[2]) }
  ELSE IF v[1] = "arr"
  THEN UNION { { Arr([v[2] EXCEPT ![i] = r]) : r \in Reorderings(v[2][i]) } :
                 i \in 1..Len(v[2]) }
  ELSE {}

\* The same value is built again with keys created in another order.
ReorderKeys ==
  /\ twin' \in Reorderings(twin)
  /\ canon' = NoCanon
  /\ UNCHANGED << value, logVars, sealVars, digestVars, raceVars >>

\* canonicalJson(value) and canonicalJson(twin)
Canonicalize ==
  /\ canon' = <<canonicalJson(value), canonicalJson(twin)>>
  /\ UNCHANGED << value, twin, logVars, sealVars, digestVars, raceVars >>

InitCanonical ==
  /\ InitLog({"absent"})
  /\ InitSeal
  /\ InitCanon(CanonValues)
  /\ InitDigest({NoInput})
  /\ InitRace

NextCanon == ReorderKeys \/ Canonicalize

SpecCanon == InitCanonical /\ [][NextCanon]_vars

----------------------------------------------------------------------------
(* computeInputDigest as a state machine *)

MaxPins == 2

Words == { Chars(<<"g">>), Chars(<<"h">>) }
PinNames == { Chars(<<"r">>), Chars(<<"s">>) }
ReadmeValues == { Undefined, Null, PlainEvidence }

GivenInputs ==
  { [engine |-> Chars(<<"g">>), version |-> Chars(<<"g">>),
     org |-> Chars(<<"g">>), mode |-> Chars(<<"g">>),
     expectedPins |-> pins, profileReadmeRequired |-> True,
     profileReadmeRepo |-> Undefined, profileReadmePath |-> Null] :
    pins \in { <<>>, <<Chars(<<"s">>), Chars(<<"r">>)>> } }

\* One field of the second input gets another value.
ChangeField ==
  /\ \/ \E w \in Words :
          \/ other' = [other EXCEPT !.engine = w]
          \/ other' = [other EXCEPT !.version = w]
          \/ other' = [other EXCEPT !.org = w]
          \/ other' = [other EXCEPT !.mode = w]
     \/ \E r \in {True, False} :
          other' = [other EXCEPT !.profileReadmeRequired = r]
     \/ \E r \in ReadmeValues :
          \/ other' = [other EXCEPT !.profileReadmeRepo = r]
          \/ other' = [other EXCEPT !.profileReadmePath = r]
     \/ \E pin \in PinNames :
          /\ Len(other.expectedPins) < MaxPins
          /\ other' = [other EXCEPT !.expectedPins = Append(@, pin)]
     \/ /\ other.expectedPins # <<>>
        /\ other' = [other EXCEPT !.expectedPins = Tail(@)]
  /\ other' # other
  /\ digests' = NoDigests
  /\ UNCHANGED << input, logVars, sealVars, canonVars, raceVars >>

\* The pins of the second input are given in another order.
ReorderPins ==
  /\ \E i \in 1..(Len(other.expectedPins) - 1) :
       other' = [other EXCEPT !.expectedPins = SwapProps(@, i)]
  /\ digests' = NoDigests
  /\ UNCHANGED << input, logVars, sealVars, canonVars, raceVars >>

\* computeInputDigest(input) and computeInputDigest(other)
ComputeDigests ==
  /\ digests' = <<computeInputDigest(input), computeInputDigest(other)>>
  /\ UNCHANGED << input, other, logVars, sealVars, canonVars, raceVars >>

InitIntent ==
  /\ InitLog({"absent"})
  /\ InitSeal
  /\ InitCanon({Undefined})
  /\ InitDigest(GivenInputs)
  /\ InitRace

NextDigest == ChangeField \/ ReorderPins \/ ComputeDigests

SpecDigest == InitIntent /\ [][NextDigest]_vars

----------------------------------------------------------------------------
(* Properties of the anchor log *)

\* The leading hash token of a line and the payload that follows its first
\* space, read in full.
HashToken(line) == Head(Split(line, SP))
PayloadText(line) == SubSeq(line, Len(HashToken(line)) + 2, Len(line))
PayloadOfLine(line) == JSONparse(PayloadText(line))

\* C1: after n sequential appendAnchorEntry calls on a log that did not
\* exist, with any evidence paths (spaces included) and evidence values,
\* verifyAnchorLog returns ok=true with entries=n.
C1_AppendsThenVerifyOk ==
  result.outcome # "none" => result = Returned(TRUE, Len(written), NoError)

\* C2: in a log built by sequential appends from an absent file, the payload
\* of entry 0 has prev_hash "GENESIS" and the payload of every later entry
\* has the leading hash token of the line before it as prev_hash.
C2_ChainLinkage ==
  logExists =>
    /\ Len(LogLines) = Len(written)
    /\ \A k \in 1..Len(LogLines) :
         /\ PayloadOfLine(LogLines[k]) # SyntaxError
         /\ Get(PayloadOfLine(LogLines[k])[2], K_prev_hash) =
              Str(IF k = 1 THEN GENESIS ELSE HashToken(LogLines[k - 1]))

C2_Witness ==
  /\ Len(written) = MaxAppends
  /\ Get(PayloadOfLine(LogLines[1])[2], K_evidence_path) = Str(SpacedPath)
  /\ Get(PayloadOfLine(LogLines[3])[2], K_prev_hash) = Str(HashToken(LogLines[2]))
  /\ HashToken(LogLines[2]) # HashToken(LogLines[1])

\* The entries whose line is no longer the line appendAnchorEntry wrote,
\* numbered from 0.
AlteredEntries ==
  { k \in 0..(Len(written) - 1) : LogLines[k + 1] # written[k + 1] }

Least(S) == CHOOSE k \in S : \A m \in S : k <= m

\* C3: when payloads of a valid log are altered in place and the leading
\* hashes are left alone, verifyAnchorLog returns ok=false with entries = the
\* smallest altered index.
C3_FailsAtAlteredEntry ==
  (result.outcome # "none" /\ AlteredEntries # {}) =>
    /\ result.outcome = "returned"
    /\ result.ok = FALSE
    /\ result.entries = Least(AlteredEntries)

\* Two values that are deeply equal except for the order in which the keys
\* of their objects were created.
RECURSIVE SameModuloKeyOrder(_, _)
SameModuloKeyOrder(a, b) ==
  IF a[1] # b[1] THEN FALSE
  ELSE IF a[1] = "arr"
    THEN /\ Len(a[2]) = Len(b[2])
         /\ \A i \in 1..Len(a[2]) : SameModuloKeyOrder(a[2][i], b[2][i])
  ELSE IF a[1] = "obj"
    THEN /\ Len(a[2]) = Len(b[2])
         /\ \A i \in 1..Len(a[2]) :
              /\ HasKey(b[2], a[2][i][1])
              /\ SameModuloKeyOrder(a[2][i][2], Get(b[2], a[2][i][1]))
  ELSE a = b

\* C9: appendAnchorEntry records the digest of the canonical serialization
\* of the evidence as evidence_hash, so evidence values that differ only in
\* key order are recorded with the same evidence_hash.
C9_EvidenceHashCanonical ==
  /\ \A i \in 1..Len(returned) :
       Get(returned[i][2], K_evidence_hash) =
         Str(sha256Hex(canonicalJson(inputs[i])))
  /\ \A i, j \in 1..Len(returned) :
       SameModuloKeyOrder(inputs[i], inputs[j]) =>
         Get(returned[i][2], K_evidence_hash) =
           Get(returned[j][2], K_evidence_hash)

\* How many line feeds a text holds.
CountNL(s) == Cardinality({ i \in 1..Len(s) : s[i] = NL })

\* C10: every appendAnchorEntry call leaves the bytes of the log as they
\* were and adds exactly one line at the end; nothing else writes the log.
C10_AppendOnly ==
  [][ \/ /\ logFile' = logFile
         /\ written' = written
      \/ /\ Len(written') = Len(written) + 1
         /\ Len(logFile') > Len(logFile)
         /\ SubSeq(logFile', 1, Len(logFile)) = logFile
         /\ logFile'[Len(logFile')] = NL
         /\ CountNL(logFile') = CountNL(logFile) + 1
         /\ Len(Split(Trim(logFile'), NL)) = Len(written') ]_vars

C10_Witness ==
  /\ Len(written) = MaxAppends
  /\ CountNL(logFile) = MaxAppends
  /\ \E i \in 1..Len(inputs) : inputs[i] = EvidenceBA

----------------------------------------------------------------------------
(* Properties of the seal *)

\* C4: verifyEvidenceObject(attachSeal({evidenceWithoutSeal: b, inputDigest:
\* d})) returns ok=true for every object b, a b with a seal field included.
C4_SealRoundTrip ==
  (verdict # NoVerdict /\ sealed # Undefined /\ evidence = sealed) => verdict.ok

\* The evidence still carries the seal attachSeal gave it.
SealIntact ==
  /\ sealed # Undefined
  /\ evidence[1] = "obj"
  /\ Member(evidence, K_seal) = Member(sealed, K_seal)

\* The fields of the sealed body, seal left out.
BodyFields == { body[2][i][1] : i \in 1..Len(body[2]) } \ { K_seal }

\* C5: after attachSeal, changing a field other than seal to a different
\* value makes verifyEvidenceObject return ok=false with an actual digest
\* that differs from the expected one.
C5_TamperDetected ==
  (/\ verdict # NoVerdict
   /\ SealIntact
   /\ \E key \in BodyFields :
        ~SameModuloKeyOrder(Get(evidence[2], key), Get(body[2], key)))
    => (~verdict.ok /\ verdict.actual # verdict.expected)

IsNullish(v) == v[1] \in {"null", "NaN", "undefined"}

\* Two values that are deeply equal except for key order and for which of
\* null, NaN and undefined stands where no value is.
RECURSIVE Alike(_, _)
Alike(a, b) ==
  IF IsNullish(a) \/ IsNullish(b) THEN IsNullish(a) /\ IsNullish(b)
  ELSE IF a[1] # b[1] THEN FALSE
  ELSE IF a[1] = "arr"
    THEN /\ Len(a[2]) = Len(b[2])
         /\ \A i \in 1..Len(a[2]) : Alike(a[2][i], b[2][i])
  ELSE IF a[1] = "obj"
    THEN /\ Len(a[2]) = Len(b[2])
         /\ \A i \in 1..Len(a[2]) :
              /\ HasKey(b[2], a[2][i][1])
              /\ Alike(a[2][i][2], Get(b[2], a[2][i][1]))
  ELSE a = b

\* C5 as amended: the change is detected when the new value is not the old
\* one up to key order and up to the exchange of null, NaN and undefined.
C5_TamperDetectedCanonical ==
  (/\ verdict # NoVerdict
   /\ SealIntact
   /\ \E key \in BodyFields : ~Alike(Get(evidence[2], key), Get(body[2], key)))
    => (~verdict.ok /\ verdict.actual # verdict.expected)

C5_Witness ==
  /\ verdict # NoVerdict
  /\ SealIntact
  /\ HasKey(body[2], KeyN)
  /\ Get(body[2], KeyN) = NestedBC
  /\ Get(evidence[2], KeyN) = NestedBC2
  /\ Get(evidence[2], KeyA) = Get(body[2], KeyA)
  /\ ~verdict.ok

\* C8: verifyEvidenceObject gives a structured result with ok=false for a
\* non-object, an object without seal, a seal whose algorithm is not
\* "sha256", a seal with an empty evidence_digest and a digest mismatch, and
\* ok=true only when the recomputed digest is the stored one.
C8_FailureIsAResult ==
  verdict # NoVerdict =>
    LET isObject == evidence[1] \in {"arr", "obj"}
        seal == Member(evidence, K_seal)
        stored == Member(seal, K_evidence_digest)
        recomputed == Str(sha256Hex(canonicalJson(Obj(Rest(evidence, K_seal)))))
    IN /\ verdict.ok \in BOOLEAN
       /\ verdict.expected[1] # "undefined"
       /\ verdict.actual[1] = "str"
       /\ ~isObject => ~verdict.ok
       /\ (isObject /\ seal \in {Undefined, Null}) => ~verdict.ok
       /\ (isObject /\ Member(seal, K_algorithm) # Str(SHA256)) => ~verdict.ok
       /\ (isObject /\ stored \in {Str(<<>>), Undefined, Null}) => ~verdict.ok
       /\ (isObject /\ stored # recomputed) => ~verdict.ok
       /\ verdict.ok =>
            (verdict.expected = stored /\ verdict.actual = recomputed
               /\ recomputed = stored)

C8_Witness ==
  /\ verdict # NoVerdict
  /\ ~verdict.ok
  /\ evidence[1] = "obj"
  /\ Member(Member(evidence, K_seal), K_algorithm) = Str(Chars(<<"m", "d", "5">>))
  /\ Member(Member(evidence, K_seal), K_evidence_digest) =
       Str(sha256Hex(canonicalJson(Obj(Rest(evidence, K_seal)))))

----------------------------------------------------------------------------
(* Properties of canonicalJson and computeInputDigest *)

\* C6: canonicalJson gives the same string for two values that differ only
\* in the order in which keys were created, at any depth.
C6_OrderIndependent ==
  canon # NoCanon => canon[1] = canon[2]

C6_Witness ==
  /\ canon # NoCanon
  /\ value = NestedDeep
  /\ twin # value
  /\ twin[2][1][1] # KeyB
  /\ Get(twin[2], KeyB) # Get(value[2], KeyB)

\* How often pin stands in pins.
Count(pins, pin) == Cardinality({ i \in 1..Len(pins) : pins[i] = pin })

SamePins(a, b) == \A pin \in PinNames : Count(a, pin) = Count(b, pin)

\* The fields in which two inputs differ; the pins differ when they are not
\* the same pins with the same multiplicities.
DifferingFields(a, b) ==
  { f \in {"engine", "version", "org", "mode", "profileReadmeRequired",
           "profileReadmeRepo", "profileReadmePath"} : a[f] # b[f] }
    \cup (IF SamePins(a.expectedPins, b.expectedPins) THEN {} ELSE {"expectedPins"})

\* C7: computeInputDigest gives one digest for inputs with the same fields
\* and the same pins in any order, and another digest when one field has
\* another value, absent against null and the multiplicity of a pin included.
C7_InputDigestStability ==
  digests # NoDigests =>
    /\ DifferingFields(input, other) = {} => digests[1] = digests[2]
    /\ Cardinality(DifferingFields(input, other)) = 1 => digests[1] # digests[2]

\* A property of the profile README as the digest sees it: absent is null.
Readme(v) == IF v = Undefined THEN Null ELSE v

Seen(a) ==
  [a EXCEPT !.profileReadmeRepo = Readme(@), !.profileReadmePath = Readme(@)]

\* C7 as amended: absent and null are one value of profileReadmeRepo and of
\* profileReadmePath.
C7_InputDigestStabilityReadme ==
  digests # NoDigests =>
    /\ DifferingFields(Seen(input), Seen(other)) = {} => digests[1] = digests[2]
    /\ Cardinality(DifferingFields(Seen(input), Seen(other))) = 1 =>
         digests[1] # digests[2]

C7_Witness ==
  /\ digests # NoDigests
  /\ Len(input.expectedPins) = 2
  /\ other.expectedPins # input.expectedPins
  /\ SamePins(input.expectedPins, other.expectedPins)
  /\ other.profileReadmeRepo = Null
  /\ input.profileReadmeRepo = Undefined
  /\ DifferingFields(Seen(input), Seen(other)) = {}
  /\ digests[1] = digests[2]

----------------------------------------------------------------------------
(* Properties of the log under two callers *)

\* The entries (1-based) whose caller read the same previous hash as the
\* caller of an earlier entry.
Raced == { j \in 1..Len(basis) : \E i \in 1..(j - 1) : basis[i] = basis[j] }

\* C11: when two callers of appendAnchorEntry interleave their reads and
\* their appends, every entry carries the prev_hash its caller read, so two
\* callers that read the same previous hash leave two entries with the same
\* prev_hash, and verifyAnchorLog returns ok=false at the second of them
\* (the first such entry of the log).
C11_RaceBreaksChain ==
  /\ logExists =>
       /\ Len(LogLines) = Len(basis)
       /\ \A k \in 1..Len(LogLines) :
            /\ PayloadOfLine(LogLines[k]) # SyntaxError
            /\ Get(PayloadOfLine(LogLines[k])[2], K_prev_hash) = Str(basis[k])
  /\ (result.outcome # "none" /\ Raced # {}) =>
       result = Returned(FALSE, Least(Raced) - 1,
                         <<"Hash chain broken at entry ", Least(Raced) - 1>>)

\* Both callers read the absent log, both appended, and verifyAnchorLog
\* stopped at the second entry.
C11_Witness ==
  /\ Len(basis) = 2
  /\ basis[1] = GENESIS
  /\ basis[2] = GENESIS
  /\ \A w \in Writers : pc[w] = "idle"
  /\ Len(LogLines) = 2
  /\ Get(PayloadOfLine(LogLines[1])[2], K_prev_hash) = Str(GENESIS)
  /\ Get(PayloadOfLine(LogLines[2])[2], K_prev_hash) = Str(GENESIS)
  /\ result.outcome = "returned"
  /\ result.ok = FALSE
  /\ result.entries = 1

----------------------------------------------------------------------------
(* Key order in the output of canonicalJson *)

\* The JSON text of v with the keys of every object in code unit order.
RECURSIVE JsonStringifySorted(_)
JsonStringifySorted(v) ==
  IF v[1] = "arr"
  THEN <<<<"[">>>>
         \o Join([i \in 1..Len(v[2]) |-> JsonStringifySorted(v[2][i])],
                 <<<<",">>>>)
         \o <<<<"]">>>>
  ELSE IF v[1] = "obj"
  THEN LET keys == SortStrings([i \in 1..Len(v[2]) |-> v[2][i][1]])
       IN <<<<"{">>>>
            \o Join([i \in 1..Len(keys) |->
                       JsonQuote(keys[i]) \o <<<<":">>>>
                         \o JsonStringifySorted(Get(v[2], keys[i]))],
                    <<<<",">>>>)
            \o <<<<"}">>>>
  ELSE JsonStringify(v)

\* C12: in the output of canonicalJson the keys of every mapping stand in
\* strict lexicographic (code unit) order, keys that look like non-negative
\* integers included: "10" before "9".
C12_KeysLexicographic ==
  canon # NoCanon =>
    /\ canon[1] = JsonStringifySorted(normalise(value))
    /\ canon[2] = JsonStringifySorted(normalise(twin))

----------------------------------------------------------------------------
(* A log file that exists and holds no entry *)

\* C13: a log file that exists but holds no entry (empty, or white space
\* only) is treated like an absent one: the first appendAnchorEntry writes
\* prev_hash "GENESIS", verifyAnchorLog on the entry-less file returns
\* ok=true with entries=0, and after one append it returns ok=true with
\* entries=1.
C13_EmptyLogLikeAbsent ==
  /\ Len(returned) >= 1 =>
       Get(returned[1][2], K_prev_hash) = Str(GENESIS)
  /\ (origin \in {"empty", "blank"} /\ result.outcome # "none"
        /\ Len(written) <= 1) =>
       result = Returned(TRUE, Len(written), NoError)

====
